---- MODULE Spec2Model ----
(***************************************************************************)
(* Model of the two administration scripts of vnm-incident-manager:        *)
(*   im-update1.py          create/update contacts, channels, engagement   *)
(*                          plans and response plans                       *)
(*   im-delete-contacts.py  delete contacts and their channels             *)
(* The remote incident-management service is the environment: every remote *)
(* call answers according to the remote state or fails with an error.      *)
(***************************************************************************)
EXTENDS Integers, Sequences, FiniteSets, TLC

(***************************************************************************)
(* Bounds of the model.                                                    *)
(***************************************************************************)
MaxChannels == 3
MaxDelay == 2

(***************************************************************************)
(* Program constants.                                                      *)
(***************************************************************************)
ChannelTypes == {"EMAIL", "SMS", "VOICE"}
RetryIntervalInMinutes == 2
LastStageDuration == 1

ErrorCodes ==
    {"ResourceNotFoundException", "ConflictException",
     "ThrottlingException", "AccessDeniedException"}
NonClientError == "BotoCoreError"
RetryAttempts == 3
RetryDelay == 2

VARIABLES
    \* configuration tables of the scripts (fixed during a run)
    script,                    \* "update" (im-update1.py) or "delete"
    CONFIG,                    \* dry_run, require_confirmation, remove_from_response_plans
    CONTACTS_DEFINITION,       \* sequence of [alias, details]
    RESPONSE_PLANS_TO_UPDATE,  \* sequence of [plan_name, contacts_to_engage]
    CONTACTS_TO_DELETE,        \* sequence of aliases
    \* the remote account
    remote_contacts,           \* alias -> [exists, channels, plan]
    remote_plans,              \* plan name -> [exists, engagements]
    \* position of the running script
    pc, i, k, retry,
    \* locals of create_or_update_contact / update_response_plan
    existing_contact, existing_channels, channel_arns_by_type, plan_stages,
    engagements,
    \* locals of main (update)
    contact_arns, success,
    \* locals of delete_contact and main (delete)
    channels, response_plans, contacts_processed,
    \* what the process leaves behind
    main_returned,             \* the value main returned
    exit_status, summary,
    \* observation of the run
    attempted,                 \* work items whose processing was started, in order
    api_calls,                 \* mutating remote calls issued so far
    faulted,                   \* some remote call failed for a reason other than the remote state
    log,                       \* the outcome lines logged or printed: <<level, line, item>>
    run, first_run,            \* consecutive runs of the update flow
    \* harnesses
    b_pc, b_channels,          \* builder harness
    r_history                  \* retry harness: the answers of the attempts so far

cfg_vars == <<script, CONFIG, CONTACTS_DEFINITION, RESPONSE_PLANS_TO_UPDATE,
              CONTACTS_TO_DELETE>>
remote_vars == <<remote_contacts, remote_plans>>
contact_locals == <<existing_contact, existing_channels, channel_arns_by_type,
                    plan_stages, k, retry>>
delete_locals == <<channels, response_plans>>
out_vars == <<main_returned, exit_status, summary>>
run_vars == <<run, first_run>>
harness_vars == <<b_pc, b_channels, r_history>>

vars == <<cfg_vars, remote_vars, pc, i, contact_locals, engagements, contact_arns,
          success, delete_locals, contacts_processed, out_vars, attempted,
          api_calls, faulted, log, run_vars, harness_vars>>

(***************************************************************************)
(* Helpers for Python dictionaries and lists.                              *)
(***************************************************************************)
Get(d, key, default) == IF key \in DOMAIN d THEN d[key] ELSE default

EmptyDict == [x \in {} |-> 0]

Range(s) == {s[n] : n \in DOMAIN s}

RECURSIVE Sum(_)
Sum(s) == IF s = <<>> THEN 0 ELSE Head(s) + Sum(Tail(s))

(***************************************************************************)
(* A channel ARN is issued by the remote service; the n-th channel created *)
(* for a contact gets the ARN <<"contact-channel", alias, n>>.             *)
(***************************************************************************)
ChannelArn(alias, n) == <<"contact-channel", alias, n>>

(***************************************************************************)
(* The escalation-plan builder of create_or_update_contact.                *)
(***************************************************************************)
\* Variant: a channel whose type has no ARN is kept, without ARN.
RECURSIVE MutChannelInfoKeepsAll(_, _)
MutChannelInfoKeepsAll(chans, arns_by_type) ==
    IF chans = <<>> THEN <<>>
    ELSE LET channel_config == Head(chans)
             channel_type == channel_config["type"]
             rest == MutChannelInfoKeepsAll(Tail(chans), arns_by_type)
         IN  <<[arn |-> Get(arns_by_type, channel_type, ChannelArn("None", 0)),
                engagement_time |->
                    Get(channel_config, "engagement_time_minutes", 0),
                type |-> channel_type]>> \o rest

RECURSIVE ChannelInfo(_, _)
ChannelInfo(chans, arns_by_type) ==
    IF chans = <<>> THEN <<>>
    ELSE LET channel_config == Head(chans)
             channel_type == channel_config["type"]
             rest == ChannelInfo(Tail(chans), arns_by_type)
         IN  IF channel_type \in DOMAIN arns_by_type
             THEN <<[arn |-> arns_by_type[channel_type],
                     engagement_time |->
                         Get(channel_config, "engagement_time_minutes", 0),
                     type |-> channel_type]>> \o rest
             ELSE rest

RECURSIVE EngagementGroups(_, _)
EngagementGroups(channel_info, engagement_groups) ==
    IF channel_info = <<>> THEN engagement_groups
    ELSE LET channel == Head(channel_info)
             engagement_time == channel.engagement_time
             g == IF engagement_time \in DOMAIN engagement_groups
                  THEN engagement_groups
                  ELSE [t \in DOMAIN engagement_groups \cup {engagement_time} |->
                            IF t = engagement_time THEN <<>>
                            ELSE engagement_groups[t]]
         IN  EngagementGroups(Tail(channel_info),
                 [g EXCEPT ![engagement_time] = Append(@, channel)])

RECURSIVE Sorted(_)
Sorted(S) ==
    IF S = {} THEN <<>>
    ELSE LET m == CHOOSE x \in S : \A y \in S : x <= y
         IN  <<m>> \o Sorted(S \ {m})

\* Variant: no initial wait stage is emitted.
MutNoInitialWait(sorted_engagement_times) == <<>>

InitialWaitStage(sorted_engagement_times) ==
    IF sorted_engagement_times # <<>> /\ sorted_engagement_times[1] > 0
    THEN <<[DurationInMinutes |-> sorted_engagement_times[1], Targets |-> <<>>]>>
    ELSE <<>>

\* Variant: a stage waits the gap from the previous engagement time.
MutWaitBeforeEngage(sorted_engagement_times, n) ==
    IF n > 1
    THEN sorted_engagement_times[n] - sorted_engagement_times[n - 1]
    ELSE LastStageDuration

\* Variant: the last stage is given duration 0.
MutLastStageZero(sorted_engagement_times, n) ==
    IF n + 1 <= Len(sorted_engagement_times)
    THEN sorted_engagement_times[n + 1] - sorted_engagement_times[n]
    ELSE 0

\* Variant: a stage waits the absolute time of the next engagement.
MutDurationAbsolute(sorted_engagement_times, n) ==
    IF n + 1 <= Len(sorted_engagement_times)
    THEN sorted_engagement_times[n + 1]
    ELSE LastStageDuration

StageDuration(sorted_engagement_times, n) ==
    IF n + 1 <= Len(sorted_engagement_times)
    THEN sorted_engagement_times[n + 1] - sorted_engagement_times[n]
    ELSE LastStageDuration

StageTargets(channels_at_this_time) ==
    [m \in 1..Len(channels_at_this_time) |->
        [ContactChannelId |-> channels_at_this_time[m].arn,
         RetryIntervalInMinutes |-> RetryIntervalInMinutes]]

RECURSIVE GroupStages(_, _, _)
GroupStages(sorted_engagement_times, engagement_groups, n) ==
    IF n > Len(sorted_engagement_times) THEN <<>>
    ELSE <<[DurationInMinutes |-> StageDuration(sorted_engagement_times, n),
            Targets |-> StageTargets(engagement_groups[sorted_engagement_times[n]])]>>
         \o GroupStages(sorted_engagement_times, engagement_groups, n + 1)

PlanStages(chans, arns_by_type) ==
    LET channel_info == ChannelInfo(chans, arns_by_type)
        engagement_groups == EngagementGroups(channel_info, EmptyDict)
        sorted_engagement_times == Sorted(DOMAIN engagement_groups)
    IN  InitialWaitStage(sorted_engagement_times)
        \o GroupStages(sorted_engagement_times, engagement_groups, 1)

(***************************************************************************)
(* Resource references: a fixed template over the kind and the alias/name  *)
(* (region and account are the same for every reference of a run).         *)
(***************************************************************************)
ContactArn(alias) == <<"contact", alias>>

ResponsePlanArn(plan_name) == <<"response-plan", plan_name>>

Put(d, key, v) == [x \in DOMAIN d \cup {key} |-> IF x = key THEN v ELSE d[x]]

(***************************************************************************)
(* Answers of the remote service.  A call made with outcome "ok" is        *)
(* answered from the remote state; any other outcome is the error the call *)
(* raises: a ClientError with one of ErrorCodes, or an exception that is   *)
(* not a ClientError.                                                      *)
(***************************************************************************)
Outcomes == {"ok"} \cup ErrorCodes \cup {NonClientError}

IsClientError(answer) == answer \in ErrorCodes

IsFailure(answer) == answer \in ErrorCodes \cup {NonClientError}

GetContactAnswer(alias, o) ==
    IF o # "ok" THEN o
    ELSE IF remote_contacts[alias].exists THEN "ok"
    ELSE "ResourceNotFoundException"

CreateContactAnswer(alias, o) ==
    IF o # "ok" THEN o
    ELSE IF remote_contacts[alias].exists THEN "ConflictException"
    ELSE "ok"

UpdateContactAnswer(alias, o) ==
    IF o # "ok" THEN o
    ELSE IF remote_contacts[alias].exists THEN "ok"
    ELSE "ResourceNotFoundException"

GetResponsePlanAnswer(plan_name, o) ==
    IF o # "ok" THEN o
    ELSE IF remote_plans[plan_name].exists THEN "ok"
    ELSE "ResourceNotFoundException"

RemoteHasChannelType(alias, channel_type) ==
    \E n \in DOMAIN remote_contacts[alias].channels :
        remote_contacts[alias].channels[n]["type"] = channel_type

(***************************************************************************)
(* retry_operation: one pass of its loop, given the answer of the call.    *)
(***************************************************************************)
NoRetry ==
    [status |-> "idle", attempt |-> 0, calls |-> 0, slept |-> 0, result |-> "none"]

NewRetry == [NoRetry EXCEPT !.status = "calling"]

\* Variant: the wrapper also sleeps before raising the last failure.
MutSleepAfterLastAttempt(r, answer) ==
    LET called == [r EXCEPT !.calls = @ + 1]
    IN  IF ~IsFailure(answer)
        THEN [called EXCEPT !.status = "returned", !.result = answer]
        ELSE IF IsClientError(answer) /\ r.attempt # RetryAttempts - 1
        THEN [called EXCEPT !.attempt = @ + 1, !.slept = @ + RetryDelay]
        ELSE [called EXCEPT !.status = "raised", !.result = answer,
                            !.slept = @ + RetryDelay]

\* Variant: a ConflictException is raised at once instead of retried.
MutConflictNotRetried(r, answer) ==
    LET called == [r EXCEPT !.calls = @ + 1]
    IN  IF ~IsFailure(answer)
        THEN [called EXCEPT !.status = "returned", !.result = answer]
        ELSE IF /\ IsClientError(answer) /\ answer # "ConflictException"
                /\ r.attempt # RetryAttempts - 1
        THEN [called EXCEPT !.attempt = @ + 1, !.slept = @ + RetryDelay]
        ELSE [called EXCEPT !.status = "raised", !.result = answer]

RetryOperation(r, answer) ==
    LET called == [r EXCEPT !.calls = @ + 1]
    IN  IF ~IsFailure(answer)
        THEN [called EXCEPT !.status = "returned", !.result = answer]
        ELSE IF IsClientError(answer) /\ r.attempt # RetryAttempts - 1
        THEN [called EXCEPT !.attempt = @ + 1, !.slept = @ + RetryDelay]
        ELSE [called EXCEPT !.status = "raised", !.result = answer]

(***************************************************************************)
(* validate_configuration                                                  *)
(***************************************************************************)
ValidChannel(channel) ==
    /\ Get(channel, "type", "") \in ChannelTypes
    /\ Get(channel, "address", "") # ""
    /\ Get(channel, "engagement_time_minutes", 0) >= 0

ValidContact(entry) ==
    /\ entry.alias # ""
    /\ Get(entry.details, "name", "") # ""
    /\ Get(entry.details, "channels", <<>>) # <<>>
    /\ \A n \in DOMAIN entry.details.channels :
           ValidChannel(entry.details.channels[n])

DefinedAliases == {CONTACTS_DEFINITION[n].alias : n \in DOMAIN CONTACTS_DEFINITION}

\* Variant: the aliases a response plan references are not looked up.
MutPlanAliasesUnchecked(entry) ==
    /\ entry.plan_name # ""
    /\ Get(entry, "contacts_to_engage", <<>>) # <<>>

ValidResponsePlan(entry) ==
    /\ entry.plan_name # ""
    /\ Get(entry, "contacts_to_engage", <<>>) # <<>>
    /\ \A n \in DOMAIN entry.contacts_to_engage :
           entry.contacts_to_engage[n] \in DefinedAliases

validate_configuration ==
    /\ \A n \in DOMAIN CONTACTS_DEFINITION : ValidContact(CONTACTS_DEFINITION[n])
    /\ \A n \in DOMAIN RESPONSE_PLANS_TO_UPDATE :
           ValidResponsePlan(RESPONSE_PLANS_TO_UPDATE[n])

(***************************************************************************)
(* get_existing_contact_channels: the type -> ARN dictionary of the listed *)
(* channels (a later channel of a type replaces an earlier one).           *)
(***************************************************************************)
RECURSIVE ChannelsByType(_, _)
ChannelsByType(listed, d) ==
    IF listed = <<>> THEN d
    ELSE ChannelsByType(Tail(listed), Put(d, Head(listed)["type"], Head(listed).arn))

\* Variant: the listing of existing channels is always empty.
MutNoExistingChannels(alias, o) == EmptyDict

\* Variant: the dry-run test of the listing is inverted.
MutListsOnlyInDryRun(alias, o) ==
    IF o = "ok" /\ CONFIG.dry_run
    THEN ChannelsByType(remote_contacts[alias].channels, EmptyDict)
    ELSE EmptyDict

get_existing_contact_channels(alias, o) ==
    IF o = "ok" /\ ~CONFIG.dry_run
    THEN ChannelsByType(remote_contacts[alias].channels, EmptyDict)
    ELSE EmptyDict

(***************************************************************************)
(* The update script, im-update1.py.                                       *)
(***************************************************************************)
NoSummary == [printed |-> FALSE, processed |-> <<>>, failed |-> <<>>]

Alias == CONTACTS_DEFINITION[i].alias
Details == CONTACTS_DEFINITION[i].details

ResetContactLocals ==
    /\ existing_contact' = FALSE
    /\ existing_channels' = EmptyDict
    /\ channel_arns_by_type' = EmptyDict
    /\ plan_stages' = <<>>
    /\ k' = 0
    /\ retry' = NoRetry

\* main's loop over CONTACTS_DEFINITION moves to the next alias, then to the
\* response plans, then to the summary.
GotoNextContact ==
    /\ pc' = IF i < Len(CONTACTS_DEFINITION) THEN "contact"
             ELSE IF RESPONSE_PLANS_TO_UPDATE # <<>> THEN "response_plan"
             ELSE "summary"
    /\ i' = IF i < Len(CONTACTS_DEFINITION) THEN i + 1
            ELSE IF RESPONSE_PLANS_TO_UPDATE # <<>> THEN 1 ELSE 0

\* helper.log / print of an outcome line about a work item.
Logged(level, line, item) == log \cup {<<level, line, item>>}

\* create_or_update_contact returns contact_arn: main records it.
ContactReturns ==
    /\ contact_arns' = Put(contact_arns, Alias, ContactArn(Alias))
    /\ UNCHANGED success
    /\ GotoNextContact
    /\ ResetContactLocals

\* Variant: main logs the failure of the contact but keeps success.
MutFailureKeepsSuccess(error, lines) ==
    /\ success' = success
    /\ log' = log \cup lines
                  \cup (IF IsClientError(error)
                        THEN {<<"ERROR", "Error creating/updating contact", Alias>>}
                        ELSE {})
                  \cup {<<"ERROR", "Failed to process contact", Alias>>}
    /\ UNCHANGED contact_arns
    /\ GotoNextContact
    /\ ResetContactLocals

\* create_or_update_contact raises error, having logged lines: it logs a
\* ClientError itself; main logs, clears success and continues.
ContactFails(error, lines) ==
    /\ success' = FALSE
    /\ log' = log \cup lines
                  \cup (IF IsClientError(error)
                        THEN {<<"ERROR", "Error creating/updating contact", Alias>>}
                        ELSE {})
                  \cup {<<"ERROR", "Failed to process contact", Alias>>}
    /\ UNCHANGED contact_arns
    /\ GotoNextContact
    /\ ResetContactLocals

\* create_or_update_contact lets an exception that is not a ClientError through.
ContactRaises == ContactFails(NonClientError, {})

GotoNextResponsePlan ==
    /\ pc' = IF i < Len(RESPONSE_PLANS_TO_UPDATE) THEN "response_plan" ELSE "summary"
    /\ i' = IF i < Len(RESPONSE_PLANS_TO_UPDATE) THEN i + 1 ELSE 0
    /\ engagements' = <<>>
    /\ retry' = NoRetry

\* main: helper construction, validate_configuration.
UpdateMain ==
    /\ script = "update" /\ pc = "main"
    /\ \E init_ok \in BOOLEAN :
        /\ faulted' = (faulted \/ ~init_ok)
        /\ IF init_ok /\ validate_configuration
           THEN /\ pc' = IF CONTACTS_DEFINITION # <<>> THEN "contact"
                         ELSE IF RESPONSE_PLANS_TO_UPDATE # <<>> THEN "response_plan"
                         ELSE "summary"
                /\ i' = IF CONTACTS_DEFINITION # <<>> \/ RESPONSE_PLANS_TO_UPDATE # <<>>
                        THEN 1 ELSE 0
                /\ UNCHANGED <<out_vars, log>>
           ELSE /\ pc' = "done"
                /\ log' = IF init_ok
                          THEN Logged("ERROR", "Configuration validation failed", "")
                          ELSE Logged("ERROR", "Error initializing AWS clients", "")
                /\ i' = 0
                /\ main_returned' = FALSE
                /\ exit_status' = 0
                /\ summary' = NoSummary
    /\ contact_arns' = EmptyDict
    /\ success' = TRUE
    /\ UNCHANGED <<cfg_vars, remote_vars, contact_locals, engagements, delete_locals,
                   contacts_processed, attempted, api_calls, run_vars,
                   harness_vars>>

\* create_or_update_contact in dry-run mode.
ContactDryRun ==
    /\ script = "update" /\ pc = "contact" /\ CONFIG.dry_run
    /\ attempted' = Append(attempted, Alias)
    /\ ContactReturns
    /\ UNCHANGED <<cfg_vars, remote_vars, engagements, delete_locals,
                   contacts_processed, out_vars, api_calls, faulted, run_vars,
                   harness_vars>>
    /\ UNCHANGED log

\* create_or_update_contact, step 1: contact_exists.
ContactExists ==
    /\ script = "update" /\ pc = "contact" /\ ~CONFIG.dry_run
    /\ attempted' = Append(attempted, Alias)
    /\ \E o \in Outcomes :
        LET answer == GetContactAnswer(Alias, o)
        IN  /\ faulted' = (faulted \/ o # "ok")
            /\ IF answer = "ok"
               THEN /\ existing_contact' = TRUE
                    /\ pc' = "list_channels"
                    /\ retry' = NoRetry
                    /\ UNCHANGED <<log, i, existing_channels, channel_arns_by_type,
                                   plan_stages, k, contact_arns, success>>
               ELSE IF answer = "ResourceNotFoundException"
               THEN /\ existing_contact' = FALSE
                    /\ pc' = "create_contact"
                    /\ retry' = NewRetry
                    /\ UNCHANGED <<log, i, existing_channels, channel_arns_by_type,
                                   plan_stages, k, contact_arns, success>>
               ELSE ContactFails(answer, {})
    /\ UNCHANGED <<cfg_vars, remote_vars, engagements, delete_locals,
                   contacts_processed, out_vars, api_calls, run_vars, harness_vars>>

\* create_or_update_contact, step 1: one attempt of create_contact.
CreateContact ==
    /\ script = "update" /\ pc = "create_contact"
    /\ api_calls' = api_calls \cup {"create_contact"}
    /\ \E o \in Outcomes :
        LET answer == CreateContactAnswer(Alias, o)
            r == RetryOperation(retry, answer)
        IN  /\ faulted' = (faulted \/ o # "ok")
            /\ IF r.status = "returned"
               THEN /\ remote_contacts' = [remote_contacts EXCEPT ![Alias] =
                            [exists |-> TRUE, channels |-> <<>>, plan |-> <<>>]]
                    /\ pc' = "channel"
                    /\ k' = 1
                    /\ retry' = NoRetry
                    /\ UNCHANGED <<log, i, existing_contact, existing_channels,
                                   channel_arns_by_type, plan_stages, contact_arns,
                                   success>>
               ELSE IF r.status = "calling"
               THEN /\ retry' = r
                    /\ UNCHANGED <<log, remote_contacts, pc, i, k, existing_contact,
                                   existing_channels, channel_arns_by_type,
                                   plan_stages, contact_arns, success>>
               ELSE /\ ContactFails(answer, {})
                    /\ UNCHANGED remote_contacts
    /\ UNCHANGED <<cfg_vars, remote_plans, engagements, delete_locals,
                   contacts_processed, out_vars, attempted, run_vars, harness_vars>>

\* create_or_update_contact, step 2 for an existing contact: the channels
\* the contact already has.
ListChannels ==
    /\ script = "update" /\ pc = "list_channels"
    /\ \E o \in Outcomes :
        /\ faulted' = (faulted \/ o # "ok")
        /\ IF o = NonClientError
           THEN ContactRaises
           ELSE /\ existing_channels' = get_existing_contact_channels(Alias, o)
                /\ pc' = "channel"
                /\ k' = 1
                /\ UNCHANGED <<log, i, existing_contact, channel_arns_by_type,
                               plan_stages, retry, contact_arns, success>>
    /\ UNCHANGED <<cfg_vars, remote_vars, engagements, delete_locals,
                   contacts_processed, out_vars, attempted, api_calls, run_vars,
                   harness_vars>>

\* create_or_update_contact, step 2: the loop over details["channels"]
\* reuses an existing channel of the type or calls create_contact_channel.
NextChannel ==
    /\ script = "update" /\ pc = "channel" /\ k <= Len(Details.channels)
    /\ LET channel_type == Details.channels[k]["type"]
       IN  IF existing_contact /\ channel_type \in DOMAIN existing_channels
           THEN /\ channel_arns_by_type' =
                       Put(channel_arns_by_type, channel_type,
                           existing_channels[channel_type])
                /\ k' = k + 1
                /\ UNCHANGED <<pc, retry>>
           ELSE /\ pc' = "create_channel"
                /\ retry' = NewRetry
                /\ UNCHANGED <<k, channel_arns_by_type>>
    /\ UNCHANGED <<cfg_vars, remote_vars, i, existing_contact, existing_channels,
                   plan_stages, engagements, contact_arns, success, delete_locals,
                   contacts_processed, out_vars, attempted, api_calls, faulted,
                   run_vars, harness_vars>>
    /\ UNCHANGED log

\* create_contact_channel: one attempt of the remote create_contact_channel.
\* The remote, asked for a channel of a type the contact already has, either
\* reports the conflict ("exists") or creates one more channel.
CreateChannel ==
    /\ script = "update" /\ pc = "create_channel"
    /\ api_calls' = api_calls \cup {"create_contact_channel"}
    /\ LET channel_type == Details.channels[k]["type"]
           new_arn == ChannelArn(Alias, Len(remote_contacts[Alias].channels) + 1)
       IN  \E o \in Outcomes \cup
                    (IF RemoteHasChannelType(Alias, channel_type)
                     THEN {"exists"} ELSE {}) :
            LET answer == IF o = "exists" THEN "ConflictException" ELSE o
                r == RetryOperation(retry, answer)
            IN  /\ faulted' = (faulted \/ o \notin {"ok", "exists"})
                /\ IF r.status = "returned"
                   THEN /\ remote_contacts' = [remote_contacts EXCEPT
                                ![Alias].channels =
                                    Append(@, [arn |-> new_arn, type |-> channel_type])]
                        /\ channel_arns_by_type' =
                               Put(channel_arns_by_type, channel_type, new_arn)
                        /\ pc' = "channel"
                        /\ k' = k + 1
                        /\ retry' = NoRetry
                        /\ UNCHANGED <<log, i, existing_contact, existing_channels,
                                       plan_stages, contact_arns, success>>
                   ELSE IF r.status = "calling"
                   THEN /\ retry' = r
                        /\ UNCHANGED <<log, remote_contacts, pc, i, k, existing_contact,
                                       existing_channels, channel_arns_by_type,
                                       plan_stages, contact_arns, success>>
                   ELSE IF answer = "ConflictException"
                   THEN /\ pc' = "list_after_conflict"
                        /\ retry' = NoRetry
                        /\ log' = Logged("INFO", "channel already exists", Alias)
                        /\ UNCHANGED <<remote_contacts, i, k, existing_contact,
                                       existing_channels, channel_arns_by_type,
                                       plan_stages, contact_arns, success>>
                   ELSE /\ ContactFails(answer,
                               IF IsClientError(answer)
                               THEN {<<"ERROR", "Error creating channel", Alias>>}
                               ELSE {})
                        /\ UNCHANGED remote_contacts
    /\ UNCHANGED <<cfg_vars, remote_plans, engagements, delete_locals,
                   contacts_processed, out_vars, attempted, run_vars, harness_vars>>

\* create_contact_channel after a ConflictException: the ARN of the existing
\* channel of the type, if the listing shows one.
ListAfterConflict ==
    /\ script = "update" /\ pc = "list_after_conflict"
    /\ \E o \in Outcomes :
        /\ faulted' = (faulted \/ o # "ok")
        /\ IF o = NonClientError
           THEN ContactRaises
           ELSE LET channel_type == Details.channels[k]["type"]
                    listed == get_existing_contact_channels(Alias, o)
                IN  /\ channel_arns_by_type' =
                           IF channel_type \in DOMAIN listed
                           THEN Put(channel_arns_by_type, channel_type,
                                    listed[channel_type])
                           ELSE channel_arns_by_type
                    /\ pc' = "channel"
                    /\ k' = k + 1
                    /\ UNCHANGED <<log, i, existing_contact, existing_channels,
                                   plan_stages, retry, contact_arns, success>>
    /\ UNCHANGED <<cfg_vars, remote_vars, engagements, delete_locals,
                   contacts_processed, out_vars, attempted, api_calls, run_vars,
                   harness_vars>>

\* create_or_update_contact, step 3: build the plan when some channel has an
\* ARN; otherwise warn and return the contact ARN.
BuildContactPlan ==
    /\ script = "update" /\ pc = "channel" /\ k > Len(Details.channels)
    /\ IF channel_arns_by_type # EmptyDict
       THEN /\ plan_stages' = PlanStages(Details.channels, channel_arns_by_type)
            /\ pc' = "update_contact"
            /\ retry' = NewRetry
            /\ UNCHANGED <<log, i, k, existing_contact, existing_channels,
                           channel_arns_by_type, contact_arns, success>>
       ELSE /\ ContactReturns
            /\ log' = Logged("WARN", "No channels available", Alias)
    /\ UNCHANGED <<cfg_vars, remote_vars, engagements, delete_locals,
                   contacts_processed, out_vars, attempted, api_calls, faulted,
                   run_vars, harness_vars>>

\* Variant: a plan update that fails all attempts fails the contact.
MutPlanFailureFailsContact ==
    /\ script = "update" /\ pc = "update_contact"
    /\ api_calls' = api_calls \cup {"update_contact"}
    /\ \E o \in Outcomes :
        LET answer == UpdateContactAnswer(Alias, o)
            r == RetryOperation(retry, answer)
        IN  /\ faulted' = (faulted \/ o # "ok")
            /\ IF r.status = "returned"
               THEN /\ remote_contacts' =
                           [remote_contacts EXCEPT ![Alias].plan = plan_stages]
                    /\ ContactReturns
                    /\ UNCHANGED log
               ELSE IF r.status = "calling"
               THEN /\ retry' = r
                    /\ UNCHANGED <<log, remote_contacts, pc, i, k, existing_contact,
                                   existing_channels, channel_arns_by_type,
                                   plan_stages, contact_arns, success>>
               ELSE IF IsClientError(answer)
               THEN /\ success' = FALSE
                    /\ UNCHANGED contact_arns
                    /\ GotoNextContact
                    /\ ResetContactLocals
                    /\ log' = Logged("WARN", "Could not update contact plan", Alias)
                    /\ UNCHANGED remote_contacts
               ELSE /\ ContactRaises
                    /\ UNCHANGED remote_contacts
    /\ UNCHANGED <<cfg_vars, remote_plans, engagements, delete_locals,
                   contacts_processed, out_vars, attempted, run_vars, harness_vars>>

\* create_or_update_contact, step 3: one attempt of update_contact.
UpdateContact ==
    /\ script = "update" /\ pc = "update_contact"
    /\ api_calls' = api_calls \cup {"update_contact"}
    /\ \E o \in Outcomes :
        LET answer == UpdateContactAnswer(Alias, o)
            r == RetryOperation(retry, answer)
        IN  /\ faulted' = (faulted \/ o # "ok")
            /\ IF r.status = "returned"
               THEN /\ remote_contacts' =
                           [remote_contacts EXCEPT ![Alias].plan = plan_stages]
                    /\ ContactReturns
                    /\ UNCHANGED log
               ELSE IF r.status = "calling"
               THEN /\ retry' = r
                    /\ UNCHANGED <<log, remote_contacts, pc, i, k, existing_contact,
                                   existing_channels, channel_arns_by_type,
                                   plan_stages, contact_arns, success>>
               ELSE IF IsClientError(answer)
               THEN /\ ContactReturns
                    /\ log' = Logged("WARN", "Could not update contact plan", Alias)
                    /\ UNCHANGED remote_contacts
               ELSE /\ ContactRaises
                    /\ UNCHANGED remote_contacts
    /\ UNCHANGED <<cfg_vars, remote_plans, engagements, delete_locals,
                   contacts_processed, out_vars, attempted, run_vars, harness_vars>>

\* Variant: every configured alias is engaged, processed or not.
MutEngagesEveryAlias(contacts_to_engage, arns) ==
    [n \in DOMAIN contacts_to_engage |-> ContactArn(contacts_to_engage[n])]

\* update_response_plan: the engagement list of the created contacts.
RECURSIVE EngagementList(_, _)
EngagementList(contacts_to_engage, arns) ==
    IF contacts_to_engage = <<>> THEN <<>>
    ELSE (IF Head(contacts_to_engage) \in DOMAIN arns
          THEN <<arns[Head(contacts_to_engage)]>> ELSE <<>>)
         \o EngagementList(Tail(contacts_to_engage), arns)

\* update_response_plan up to get_response_plan.
ResponsePlan ==
    /\ script = "update" /\ pc = "response_plan"
    /\ LET entry == RESPONSE_PLANS_TO_UPDATE[i]
           eng == EngagementList(entry.contacts_to_engage, contact_arns)
           no_call == eng = <<>> \/ CONFIG.dry_run
       IN  /\ attempted' = Append(attempted, entry.plan_name)
           /\ \E o \in (IF no_call THEN {"ok"} ELSE Outcomes) :
                LET answer == GetResponsePlanAnswer(entry.plan_name, o)
                IN  /\ faulted' = (faulted \/ o # "ok")
                    /\ IF no_call \/ answer = "ResourceNotFoundException"
                       THEN /\ GotoNextResponsePlan
                            /\ log' = IF eng = <<>>
                                      THEN Logged("WARN", "No valid contacts found for response plan",
                                                  entry.plan_name)
                                      ELSE IF CONFIG.dry_run THEN log
                                      ELSE Logged("ERROR", "Response plan not found",
                                                  entry.plan_name)
                            /\ UNCHANGED success
                       ELSE IF answer = "ok"
                       THEN /\ pc' = "update_response_plan"
                            /\ engagements' = eng
                            /\ retry' = NewRetry
                            /\ UNCHANGED <<log, i, success>>
                       ELSE /\ GotoNextResponsePlan
                            /\ log' = Logged("ERROR", "Failed to update response plan",
                                             entry.plan_name)
                            /\ success' = FALSE
    /\ UNCHANGED <<cfg_vars, remote_vars, existing_contact, existing_channels,
                   channel_arns_by_type, plan_stages, k, contact_arns, delete_locals,
                   contacts_processed, out_vars, api_calls, run_vars, harness_vars>>

\* update_response_plan: one attempt of the remote update_response_plan.
UpdateResponsePlan ==
    /\ script = "update" /\ pc = "update_response_plan"
    /\ api_calls' = api_calls \cup {"update_response_plan"}
    /\ LET plan_name == RESPONSE_PLANS_TO_UPDATE[i].plan_name
       IN  \E o \in Outcomes :
            LET answer == GetResponsePlanAnswer(plan_name, o)
                r == RetryOperation(retry, answer)
            IN  /\ faulted' = (faulted \/ o # "ok")
                /\ IF r.status = "returned"
                   THEN /\ remote_plans' = [remote_plans EXCEPT
                                ![plan_name].engagements = engagements]
                        /\ GotoNextResponsePlan
                        /\ UNCHANGED <<log, success>>
                   ELSE IF r.status = "calling"
                   THEN /\ retry' = r
                        /\ UNCHANGED <<log, remote_plans, pc, i, engagements, success>>
                   ELSE /\ GotoNextResponsePlan
                        /\ log' = Logged("ERROR", "Failed to update response plan", plan_name)
                        /\ success' = FALSE
                        /\ UNCHANGED remote_plans
    /\ UNCHANGED <<cfg_vars, remote_contacts, existing_contact, existing_channels,
                   channel_arns_by_type, plan_stages, k, contact_arns, delete_locals,
                   contacts_processed, out_vars, attempted, run_vars, harness_vars>>

\* print_summary lists the processed contacts (it has no list of failures);
\* main returns success, and the script ends without looking at it.
ProcessedAliases ==
    SelectSeq([n \in DOMAIN CONTACTS_DEFINITION |-> CONTACTS_DEFINITION[n].alias],
              LAMBDA a : a \in DOMAIN contact_arns)

UpdateSummary ==
    /\ script = "update" /\ pc = "summary"
    /\ summary' = [printed |-> TRUE, processed |-> ProcessedAliases, failed |-> <<>>]
    /\ main_returned' = success
    /\ exit_status' = 0
    /\ pc' = "done"
    /\ UNCHANGED <<cfg_vars, remote_vars, i, contact_locals, engagements,
                   contact_arns, success, delete_locals, contacts_processed,
                   attempted, api_calls, faulted, run_vars, harness_vars>>
    /\ UNCHANGED log

UpdateNext ==
    \/ UpdateMain
    \/ ContactDryRun
    \/ ContactExists
    \/ CreateContact
    \/ ListChannels
    \/ NextChannel
    \/ CreateChannel
    \/ ListAfterConflict
    \/ BuildContactPlan
    \/ UpdateContact
    \/ ResponsePlan
    \/ UpdateResponsePlan
    \/ UpdateSummary

(***************************************************************************)
(* The deletion script, im-delete-contacts.py.                             *)
(***************************************************************************)
DeleteAlias == CONTACTS_TO_DELETE[i]

\* The response plans of the account, in the order list_response_plans
\* returns them.
PlanNames == <<"p1", "p2">>

ListedPlans == SelectSeq(PlanNames, LAMBDA p : remote_plans[p].exists)

Without(seq, x) == SelectSeq(seq, LAMBDA e : e # x)

\* delete_contact returns (or raises, which main records as False); main
\* moves to the next alias.
DeleteReturns(ok) ==
    /\ contacts_processed' = Put(contacts_processed, DeleteAlias, ok)
    /\ pc' = IF i < Len(CONTACTS_TO_DELETE) THEN "delete_contact" ELSE "summary"
    /\ i' = IF i < Len(CONTACTS_TO_DELETE) THEN i + 1 ELSE 0
    /\ channels' = <<>>
    /\ response_plans' = <<>>
    /\ k' = 0

\* main up to the loop: the empty work list, the helper, the confirmation.
DeleteMain ==
    /\ script = "delete" /\ pc = "main"
    /\ \E init_ok \in BOOLEAN, typed \in {"DELETE", "no"} :
        LET confirm_deletion == CONFIG.dry_run \/ typed = "DELETE"
        IN  /\ faulted' = (faulted \/ ~init_ok)
            /\ IF /\ CONTACTS_TO_DELETE # <<>>
                  /\ init_ok
                  /\ (~CONFIG.require_confirmation \/ confirm_deletion)
               THEN /\ pc' = "delete_contact"
                    /\ i' = 1
                    /\ UNCHANGED <<out_vars, log>>
               ELSE /\ pc' = "done"
                    /\ log' = IF CONTACTS_TO_DELETE = <<>>
                              THEN Logged("ERROR", "No contacts specified for deletion", "")
                              ELSE IF ~init_ok
                              THEN Logged("ERROR", "Error initializing AWS clients", "")
                              ELSE Logged("WARN", "Deletion cancelled by user", "")
                    /\ i' = 0
                    /\ main_returned' = FALSE
                    /\ exit_status' = 1
                    /\ summary' = NoSummary
    /\ contacts_processed' = EmptyDict
    /\ UNCHANGED <<cfg_vars, remote_vars, contact_locals, engagements, contact_arns,
                   success, delete_locals, attempted, api_calls, run_vars,
                   harness_vars>>

\* Variant: delete_contact goes on when the contact was not found.
MutDeleteGoesOnWhenNotFound ==
    /\ script = "delete" /\ pc = "delete_contact"
    /\ attempted' = Append(attempted, DeleteAlias)
    /\ \E o \in Outcomes :
        LET answer == GetContactAnswer(DeleteAlias, o)
        IN  /\ faulted' = (faulted \/ o # "ok")
            /\ IF answer \in {"ok", "ResourceNotFoundException"}
               THEN /\ pc' = "delete_list_channels"
                    /\ UNCHANGED <<log, i, k, delete_locals, contacts_processed>>
               ELSE /\ DeleteReturns(FALSE)
                    /\ log' = IF answer = "ResourceNotFoundException"
                              THEN Logged("WARN", "Contact not found", DeleteAlias)
                              ELSE Logged("ERROR", "Failed to process contact", DeleteAlias)
    /\ UNCHANGED <<cfg_vars, remote_vars, existing_contact, existing_channels,
                   channel_arns_by_type, plan_stages, retry, engagements,
                   contact_arns, success, out_vars, api_calls, run_vars,
                   harness_vars>>

\* delete_contact: get_contact_details.
DeleteGetContact ==
    /\ script = "delete" /\ pc = "delete_contact"
    /\ attempted' = Append(attempted, DeleteAlias)
    /\ \E o \in Outcomes :
        LET answer == GetContactAnswer(DeleteAlias, o)
        IN  /\ faulted' = (faulted \/ o # "ok")
            /\ IF answer = "ok"
               THEN /\ pc' = "delete_list_channels"
                    /\ UNCHANGED <<log, i, k, delete_locals, contacts_processed>>
               ELSE /\ DeleteReturns(FALSE)
                    /\ log' = IF answer = "ResourceNotFoundException"
                              THEN Logged("WARN", "Contact not found", DeleteAlias)
                              ELSE Logged("ERROR", "Failed to process contact", DeleteAlias)
    /\ UNCHANGED <<cfg_vars, remote_vars, existing_contact, existing_channels,
                   channel_arns_by_type, plan_stages, retry, engagements,
                   contact_arns, success, out_vars, api_calls, run_vars,
                   harness_vars>>

\* delete_contact: get_contact_channels.
DeleteListChannels ==
    /\ script = "delete" /\ pc = "delete_list_channels"
    /\ \E o \in Outcomes :
        /\ faulted' = (faulted \/ o # "ok")
        /\ IF o = NonClientError
           THEN /\ DeleteReturns(FALSE)
                /\ log' = Logged("ERROR", "Failed to process contact", DeleteAlias)
           ELSE /\ channels' = IF o = "ok" THEN remote_contacts[DeleteAlias].channels
                               ELSE <<>>
                /\ pc' = IF CONFIG.remove_from_response_plans
                         THEN "delete_list_plans" ELSE "delete_channel"
                /\ k' = 1
                /\ UNCHANGED <<log, i, response_plans, contacts_processed>>
    /\ UNCHANGED <<cfg_vars, remote_vars, existing_contact, existing_channels,
                   channel_arns_by_type, plan_stages, retry, engagements,
                   contact_arns, success, out_vars, attempted, api_calls, run_vars,
                   harness_vars>>

\* delete_contact: get_response_plans_using_contact.  A ClientError of the
\* listing or of a get_response_plan ends the scan with the plans found so
\* far: "scanned" plans were read before the error.
DeleteListResponsePlans ==
    /\ script = "delete" /\ pc = "delete_list_plans"
    /\ \E o \in Outcomes :
        /\ faulted' = (faulted \/ o # "ok")
        /\ IF o = NonClientError
           THEN /\ DeleteReturns(FALSE)
                /\ log' = Logged("ERROR", "Failed to process contact", DeleteAlias)
           ELSE \E scanned \in 0..Len(ListedPlans) :
                /\ o = "ok" => scanned = Len(ListedPlans)
                /\ o # "ok" => (scanned < Len(ListedPlans) \/ scanned = 0)
                /\ response_plans' =
                       SelectSeq(SubSeq(ListedPlans, 1, scanned),
                           LAMBDA p : ContactArn(DeleteAlias)
                                          \in Range(remote_plans[p].engagements))
                /\ pc' = IF response_plans' # <<>> THEN "delete_remove"
                         ELSE "delete_channel"
                /\ k' = 1
                /\ log' = IF o = "ok" THEN log
                          ELSE Logged("ERROR", "Error listing response plans", DeleteAlias)
                /\ UNCHANGED <<i, channels, contacts_processed>>
    /\ UNCHANGED <<cfg_vars, remote_vars, existing_contact, existing_channels,
                   channel_arns_by_type, plan_stages, retry, engagements,
                   contact_arns, success, out_vars, attempted, api_calls, run_vars,
                   harness_vars>>

\* remove_contact_from_response_plan for the k-th plan found.
DeleteRemoveFromPlan ==
    /\ script = "delete" /\ pc = "delete_remove"
    /\ LET plan_name == response_plans[k]
           contact_arn == ContactArn(DeleteAlias)
           current_engagements == remote_plans[plan_name].engagements
           new_engagements == Without(current_engagements, contact_arn)
           updates == Len(new_engagements) < Len(current_engagements)
           goto_next ==
               /\ pc' = IF k < Len(response_plans) THEN "delete_remove"
                        ELSE "delete_channel"
               /\ k' = IF k < Len(response_plans) THEN k + 1 ELSE 1
               /\ UNCHANGED <<i, delete_locals, contacts_processed>>
       IN  \E o1 \in (IF CONFIG.dry_run THEN {"ok"} ELSE Outcomes) :
           \E o2 \in (IF CONFIG.dry_run \/ o1 # "ok" THEN {"ok"} ELSE Outcomes) :
            LET got == GetResponsePlanAnswer(plan_name, o1)
                calls_update == ~CONFIG.dry_run /\ got = "ok" /\ updates
                updated == GetResponsePlanAnswer(plan_name, o2)
            IN  /\ faulted' = (faulted \/ o1 # "ok" \/ o2 # "ok")
                /\ api_calls' = IF calls_update
                                THEN api_calls \cup {"update_response_plan"}
                                ELSE api_calls
                /\ remote_plans' =
                       IF calls_update /\ updated = "ok"
                       THEN [remote_plans EXCEPT
                                ![plan_name].engagements = new_engagements]
                       ELSE remote_plans
                /\ IF got = NonClientError \/ (calls_update /\ updated = NonClientError)
                   THEN /\ DeleteReturns(FALSE)
                        /\ log' = Logged("ERROR", "Failed to process contact", DeleteAlias)
                   ELSE /\ goto_next
                        /\ log' = IF CONFIG.dry_run THEN log
                                  ELSE IF got # "ok" \/ (calls_update /\ updated # "ok")
                                  THEN Logged("ERROR", "Error updating response plan",
                                              DeleteAlias)
                                  ELSE IF ~updates
                                  THEN Logged("WARN", "Contact not found in response plan",
                                              DeleteAlias)
                                  ELSE log
    /\ UNCHANGED <<cfg_vars, remote_contacts, existing_contact, existing_channels,
                   channel_arns_by_type, plan_stages, retry, engagements,
                   contact_arns, success, out_vars, attempted, run_vars,
                   harness_vars>>

\* delete_contact_channel for the k-th channel listed.
DeleteChannel ==
    /\ script = "delete" /\ pc = "delete_channel" /\ k <= Len(channels)
    /\ \E o \in (IF CONFIG.dry_run THEN {"ok"} ELSE Outcomes) :
        /\ faulted' = (faulted \/ o # "ok")
        /\ api_calls' = IF CONFIG.dry_run THEN api_calls
                        ELSE api_calls \cup {"delete_contact_channel"}
        /\ remote_contacts' =
               IF ~CONFIG.dry_run /\ o = "ok"
               THEN [remote_contacts EXCEPT
                        ![DeleteAlias].channels = Without(@, channels[k])]
               ELSE remote_contacts
        /\ IF o = NonClientError
           THEN /\ DeleteReturns(FALSE)
                /\ log' = Logged("ERROR", "Failed to process contact", DeleteAlias)
           ELSE /\ k' = k + 1
                /\ log' = IF o = "ok" THEN log
                          ELSE Logged("ERROR", "Error deleting channel", DeleteAlias)
                /\ UNCHANGED <<pc, i, delete_locals, contacts_processed>>
    /\ UNCHANGED <<cfg_vars, remote_plans, existing_contact, existing_channels,
                   channel_arns_by_type, plan_stages, retry, engagements,
                   contact_arns, success, out_vars, attempted, run_vars,
                   harness_vars>>

\* Variant: delete_contact calls the remote delete_contact in a dry run too.
MutDeleteContactIgnoresDryRun ==
    /\ script = "delete" /\ pc = "delete_channel" /\ k > Len(channels)
    /\ \E o \in Outcomes :
        /\ faulted' = (faulted \/ o # "ok")
        /\ api_calls' = api_calls \cup {"delete_contact"}
        /\ remote_contacts' =
               IF o = "ok"
               THEN [remote_contacts EXCEPT ![DeleteAlias] =
                        [exists |-> FALSE, channels |-> <<>>, plan |-> <<>>]]
               ELSE remote_contacts
        /\ DeleteReturns(o = "ok")
        /\ log' = IF o = "ok" THEN log
                  ELSE IF o = NonClientError
                  THEN Logged("ERROR", "Failed to process contact", DeleteAlias)
                  ELSE Logged("ERROR", "Error deleting contact", DeleteAlias)
    /\ UNCHANGED <<cfg_vars, remote_plans, existing_contact, existing_channels,
                   channel_arns_by_type, plan_stages, retry, engagements,
                   contact_arns, success, out_vars, attempted, run_vars,
                   harness_vars>>

\* delete_contact: the remote delete_contact, and the value returned.
DeleteContactCall ==
    /\ script = "delete" /\ pc = "delete_channel" /\ k > Len(channels)
    /\ \E o \in (IF CONFIG.dry_run THEN {"ok"} ELSE Outcomes) :
        /\ faulted' = (faulted \/ o # "ok")
        /\ api_calls' = IF CONFIG.dry_run THEN api_calls
                        ELSE api_calls \cup {"delete_contact"}
        /\ remote_contacts' =
               IF ~CONFIG.dry_run /\ o = "ok"
               THEN [remote_contacts EXCEPT ![DeleteAlias] =
                        [exists |-> FALSE, channels |-> <<>>, plan |-> <<>>]]
               ELSE remote_contacts
        /\ DeleteReturns(o = "ok")
        /\ log' = IF o = "ok" THEN log
                  ELSE IF o = NonClientError
                  THEN Logged("ERROR", "Failed to process contact", DeleteAlias)
                  ELSE Logged("ERROR", "Error deleting contact", DeleteAlias)
    /\ UNCHANGED <<cfg_vars, remote_plans, existing_contact, existing_channels,
                   channel_arns_by_type, plan_stages, retry, engagements,
                   contact_arns, success, out_vars, attempted, run_vars,
                   harness_vars>>

\* print_summary and the exit status of the script.
DeletedAliases ==
    SelectSeq(CONTACTS_TO_DELETE, LAMBDA a : a \in DOMAIN contacts_processed)

DeleteSummary ==
    /\ script = "delete" /\ pc = "summary"
    /\ summary' = [printed |-> TRUE,
                   processed |-> DeletedAliases,
                   failed |-> SelectSeq(DeletedAliases,
                                        LAMBDA a : ~contacts_processed[a])]
    /\ main_returned' = (\A a \in DOMAIN contacts_processed : contacts_processed[a])
    /\ exit_status' = IF main_returned' THEN 0 ELSE 1
    /\ pc' = "done"
    /\ UNCHANGED <<cfg_vars, remote_vars, i, contact_locals, engagements,
                   contact_arns, success, delete_locals, contacts_processed,
                   attempted, api_calls, faulted, run_vars, harness_vars>>
    /\ UNCHANGED log

DeleteNext ==
    \/ DeleteMain
    \/ DeleteGetContact
    \/ DeleteListChannels
    \/ DeleteListResponsePlans
    \/ DeleteRemoveFromPlan
    \/ DeleteChannel
    \/ DeleteContactCall
    \/ DeleteSummary

(***************************************************************************)
(* Initial states: a configuration of one of the scripts and a state of    *)
(* the remote account.                                                     *)
(***************************************************************************)
Aliases == {"a", "b", "c"}

Chan(t, d) == [type |-> t, address |-> "addr", engagement_time_minutes |-> d]

ValidChannelLists ==
    { <<Chan("EMAIL", 0)>>,
      <<Chan("EMAIL", MaxDelay), Chan("SMS", MaxDelay)>>,
      <<Chan("EMAIL", MaxDelay), Chan("SMS", 0)>>,
      <<Chan("EMAIL", MaxDelay), Chan("EMAIL", 0)>>,
      <<[type |-> "VOICE", address |-> "addr"], Chan("SMS", MaxDelay)>> }

InvalidChannelLists ==
    { <<Chan("EMAIL", -1)>>,
      <<Chan("FAX", 0)>>,
      <<[type |-> "SMS", engagement_time_minutes |-> 0]>>,
      <<>> }

Contact(alias, chans) ==
    [alias |-> alias, details |-> [name |-> alias, channels |-> chans]]

ContactTables ==
    {<<Contact("a", chans)>> : chans \in ValidChannelLists \cup InvalidChannelLists}
    \cup {<<Contact("a", chans), Contact("b", <<Chan("SMS", MaxDelay)>>)>> :
            chans \in ValidChannelLists}
    \cup {<<Contact("a", <<Chan("EMAIL", 0)>>), Contact("b", <<Chan("SMS", 0)>>),
            Contact("c", <<Chan("VOICE", MaxDelay)>>)>>}

ResponsePlanTables ==
    { <<[plan_name |-> "p1", contacts_to_engage |-> <<"a">>]>>,
      <<[plan_name |-> "p1", contacts_to_engage |-> <<"a", "b">>],
        [plan_name |-> "p2", contacts_to_engage |-> <<"b">>]>> }

DeleteLists == {<<>>, <<"a">>, <<"a", "b">>, <<"a", "b", "c">>}

AbsentContact == [exists |-> FALSE, channels |-> <<>>, plan |-> <<>>]

ExistingContact(alias, types) ==
    [exists |-> TRUE,
     channels |-> [n \in DOMAIN types |-> [arn |-> ChannelArn(alias, n), type |-> types[n]]],
     plan |-> <<>>]

RemoteContactStates(alias) ==
    {AbsentContact, ExistingContact(alias, <<>>), ExistingContact(alias, <<"EMAIL">>)}

Idle ==
    /\ pc = "main" /\ i = 0 /\ k = 0 /\ retry = NoRetry
    /\ existing_contact = FALSE /\ existing_channels = EmptyDict
    /\ channel_arns_by_type = EmptyDict /\ plan_stages = <<>>
    /\ engagements = <<>>
    /\ contact_arns = EmptyDict /\ success = TRUE
    /\ channels = <<>> /\ response_plans = <<>> /\ contacts_processed = EmptyDict
    /\ main_returned = FALSE /\ exit_status = -1 /\ summary = NoSummary
    /\ attempted = <<>> /\ api_calls = {} /\ faulted = FALSE /\ log = {}
    /\ run = "first" /\ first_run = <<>>
    /\ b_pc = "off" /\ b_channels = <<>> /\ r_history = <<>>

UpdateInit ==
    /\ script = "update"
    /\ CONFIG \in [dry_run : BOOLEAN, require_confirmation : {FALSE},
                   remove_from_response_plans : {FALSE}]
    /\ CONTACTS_DEFINITION \in ContactTables
    /\ RESPONSE_PLANS_TO_UPDATE \in ResponsePlanTables
    /\ CONTACTS_TO_DELETE = <<>>
    /\ \E ra \in RemoteContactStates("a"),
          rb \in {AbsentContact, ExistingContact("b", <<"SMS">>)} :
           remote_contacts = [x \in Aliases |->
               IF x = "a" THEN ra ELSE IF x = "b" THEN rb ELSE AbsentContact]
    /\ \E p1 \in BOOLEAN :
           remote_plans = [p \in Range(PlanNames) |->
               [exists |-> (p = "p2" \/ p1), engagements |-> <<>>]]
    /\ Idle

DeleteInit ==
    /\ script = "delete"
    /\ CONFIG \in [dry_run : BOOLEAN, require_confirmation : BOOLEAN,
                   remove_from_response_plans : BOOLEAN]
    /\ CONTACTS_DEFINITION = <<>>
    /\ RESPONSE_PLANS_TO_UPDATE = <<>>
    /\ CONTACTS_TO_DELETE \in DeleteLists
    /\ \E ra \in {AbsentContact, ExistingContact("a", <<"EMAIL", "SMS">>)},
          rb \in {AbsentContact, ExistingContact("b", <<>>)} :
           remote_contacts = [x \in Aliases |->
               IF x = "a" THEN ra ELSE IF x = "b" THEN rb
               ELSE ExistingContact("c", <<"EMAIL">>)]
    /\ \E e1 \in {<<ContactArn("a"), ContactArn("b")>>, <<ContactArn("c")>>},
          p2 \in BOOLEAN :
           remote_plans = [p \in Range(PlanNames) |->
               IF p = "p1" THEN [exists |-> TRUE, engagements |-> e1]
               ELSE [exists |-> p2,
                     engagements |-> IF p2 THEN <<ContactArn("a")>> ELSE <<>>]]
    /\ Idle

Init == UpdateInit \/ DeleteInit

Next == UpdateNext \/ DeleteNext

Spec == Init /\ [][Next]_vars

(***************************************************************************)
(* The update script run twice in a row with the same configuration        *)
(* against the same account: the second run starts from the remote state   *)
(* the first run left.                                                     *)
(***************************************************************************)
Rerun ==
    /\ script = "update" /\ pc = "done" /\ run = "first"
    /\ run' = "second"
    /\ first_run' = [remote_contacts |-> remote_contacts,
                     remote_plans |-> remote_plans,
                     returned |-> main_returned]
    /\ pc' = "main"
    /\ contact_arns' = EmptyDict
    /\ success' = TRUE
    /\ main_returned' = FALSE /\ exit_status' = -1 /\ summary' = NoSummary
    /\ attempted' = <<>>
    /\ api_calls' = {}
    /\ log' = {}
    /\ UNCHANGED <<cfg_vars, remote_vars, i, contact_locals, engagements,
                   delete_locals, contacts_processed, faulted, harness_vars>>

TwiceNext == UpdateNext \/ Rerun

\* The configurations of the repeated run: one contact, one response plan.
TwiceInit ==
    /\ UpdateInit
    /\ Len(CONTACTS_DEFINITION) = 1
    /\ RESPONSE_PLANS_TO_UPDATE = <<[plan_name |-> "p1", contacts_to_engage |-> <<"a">>]>>
    /\ ~remote_contacts["b"].exists

SpecTwice == TwiceInit /\ [][TwiceNext]_vars

(***************************************************************************)
(* Builder harness: the builder applied to every bounded channel list and  *)
(* every assignment of channel ARNs to the configured types.               *)
(***************************************************************************)
BuilderChannelConfigs ==
    [type : ChannelTypes, address : {"addr"}, engagement_time_minutes : 0..MaxDelay]

BuilderChannelLists ==
    UNION {[1..n -> BuilderChannelConfigs] : n \in 1..MaxChannels}

TypesOf(chans) == {chans[n]["type"] : n \in DOMAIN chans}

TypeIndex(t) == CASE t = "EMAIL" -> 1 [] t = "SMS" -> 2 [] OTHER -> 3

HarnessIdle ==
    /\ script = "harness"
    /\ CONFIG = [dry_run |-> FALSE, require_confirmation |-> FALSE,
                 remove_from_response_plans |-> FALSE]
    /\ CONTACTS_DEFINITION = <<>> /\ RESPONSE_PLANS_TO_UPDATE = <<>>
    /\ CONTACTS_TO_DELETE = <<>>
    /\ remote_contacts = [x \in Aliases |-> AbsentContact]
    /\ remote_plans = [p \in Range(PlanNames) |->
                          [exists |-> FALSE, engagements |-> <<>>]]
    /\ pc = "harness" /\ i = 0 /\ k = 0
    /\ existing_contact = FALSE /\ existing_channels = EmptyDict
    /\ engagements = <<>>
    /\ contact_arns = EmptyDict /\ success = TRUE
    /\ channels = <<>> /\ response_plans = <<>> /\ contacts_processed = EmptyDict
    /\ main_returned = FALSE /\ exit_status = -1 /\ summary = NoSummary
    /\ attempted = <<>> /\ api_calls = {} /\ faulted = FALSE /\ log = {}
    /\ run = "first" /\ first_run = <<>>

BuilderInit ==
    /\ HarnessIdle
    /\ retry = NoRetry /\ r_history = <<>>
    /\ b_pc = "input"
    /\ b_channels \in BuilderChannelLists
    /\ \E have \in SUBSET TypesOf(b_channels) :
           channel_arns_by_type = [t \in have |-> ChannelArn("a", TypeIndex(t))]
    /\ plan_stages = <<>>

BuildPlan ==
    /\ b_pc = "input"
    /\ plan_stages' = PlanStages(b_channels, channel_arns_by_type)
    /\ b_pc' = "built"
    /\ UNCHANGED <<cfg_vars, remote_vars, pc, i, k, retry, existing_contact,
                   existing_channels, channel_arns_by_type, engagements,
                   contact_arns, success, delete_locals, contacts_processed,
                   out_vars, attempted, api_calls, faulted, run_vars, b_channels,
                   r_history>>
    /\ UNCHANGED log

BuilderNext == BuildPlan

SpecBuilder == BuilderInit /\ [][BuilderNext]_vars

(***************************************************************************)
(* Retry harness: retry_operation wrapped around a call whose every        *)
(* attempt returns a response or raises any of the errors.                 *)
(***************************************************************************)
Responses == {"response1", "response2"}

RetryInit ==
    /\ HarnessIdle
    /\ b_pc = "off" /\ b_channels = <<>>
    /\ channel_arns_by_type = EmptyDict /\ plan_stages = <<>>
    /\ retry = NewRetry
    /\ r_history = <<>>

RetryCall ==
    /\ pc = "harness" /\ retry.status = "calling"
    /\ \E answer \in Responses \cup ErrorCodes \cup {NonClientError} :
        /\ retry' = RetryOperation(retry, answer)
        /\ r_history' = Append(r_history, answer)
    /\ UNCHANGED <<cfg_vars, remote_vars, pc, i, k, existing_contact,
                   existing_channels, channel_arns_by_type, plan_stages,
                   engagements, contact_arns, success, delete_locals,
                   contacts_processed, out_vars, attempted, api_calls, faulted,
                   run_vars, b_pc, b_channels>>
    /\ UNCHANGED log

RetryNext == RetryCall

SpecRetry == RetryInit /\ [][RetryNext]_vars

(***************************************************************************)
(* Properties of the escalation-plan builder (SpecBuilder).                *)
(***************************************************************************)
HasArn(n) == b_channels[n]["type"] \in DOMAIN channel_arns_by_type

ArnOf(n) == channel_arns_by_type[b_channels[n]["type"]]

DelayOf(n) == Get(b_channels[n], "engagement_time_minutes", 0)

ConfiguredDelays == {DelayOf(n) : n \in {x \in DOMAIN b_channels : HasArn(x)}}

ChannelsAt(d) == {n \in DOMAIN b_channels : HasArn(n) /\ DelayOf(n) = d}

\* The position of delay d among the distinct delays, in ascending order.
Rank(d) == Cardinality({e \in ConfiguredDelays : e < d}) + 1

\* The m-th smallest element of a set of channel positions.
Nth(S, m) == CHOOSE n \in S : Cardinality({x \in S : x < n}) = m - 1

InitialWait == IF \A d \in ConfiguredDelays : d > 0 THEN 1 ELSE 0

TargetIds(stage) == {stage.Targets[m].ContactChannelId : m \in DOMAIN stage.Targets}

SumBefore(stages, n) ==
    Sum([m \in 1..(n - 1) |-> stages[m].DurationInMinutes])

SumUpTo(stages, n) == Sum([m \in 1..n |-> stages[m].DurationInMinutes])

\* C1: when every configured channel obtained a channel reference, the stage
\* list is the reference construction: an initial stage without targets and
\* with the smallest delay as duration when that delay is > 0; then one stage
\* per distinct delay, ascending, whose targets are exactly the channels
\* configured with that delay, in configured order, and whose duration is the
\* gap to the next distinct delay, 1 for the last stage.
C1_StagesAreReferenceConstruction ==
    (b_pc = "built" /\ \A n \in DOMAIN b_channels : HasArn(n)) =>
        /\ Len(plan_stages) = InitialWait + Cardinality(ConfiguredDelays)
        /\ InitialWait = 1 =>
              /\ plan_stages[1].Targets = <<>>
              /\ \E d \in ConfiguredDelays :
                    /\ Rank(d) = 1
                    /\ plan_stages[1].DurationInMinutes = d
        /\ \A d \in ConfiguredDelays :
              LET stage == plan_stages[InitialWait + Rank(d)]
              IN  /\ Len(stage.Targets) = Cardinality(ChannelsAt(d))
                  /\ \A m \in DOMAIN stage.Targets :
                        stage.Targets[m].ContactChannelId = ArnOf(Nth(ChannelsAt(d), m))
                  /\ IF Rank(d) = Cardinality(ConfiguredDelays)
                     THEN stage.DurationInMinutes = 1
                     ELSE \E e \in ConfiguredDelays :
                            /\ Rank(e) = Rank(d) + 1
                            /\ stage.DurationInMinutes = e - d

\* A plan with an initial wait stage, two stages with targets, and two
\* channels sharing one delay.
C1_Witness ==
    /\ b_pc = "built"
    /\ \A n \in DOMAIN b_channels : HasArn(n)
    /\ Len(plan_stages) = 3
    /\ plan_stages[1].Targets = <<>>
    /\ \E n \in DOMAIN plan_stages : Len(plan_stages[n].Targets) = 2

\* C2: the sum of the durations of the stages before the stage that targets
\* a channel is that channel's configured delay: every channel with a
\* reference is a target of a stage that starts at its delay, and every
\* target of a stage is a channel configured with the delay at which the
\* stage starts.
C2_RunningSumsAreDelays ==
    b_pc = "built" =>
        /\ \A n \in DOMAIN b_channels : HasArn(n) =>
              \E s \in DOMAIN plan_stages :
                  /\ ArnOf(n) \in TargetIds(plan_stages[s])
                  /\ SumBefore(plan_stages, s) = DelayOf(n)
        /\ \A s \in DOMAIN plan_stages : \A t \in TargetIds(plan_stages[s]) :
              \E n \in DOMAIN b_channels :
                  /\ HasArn(n) /\ ArnOf(n) = t
                  /\ DelayOf(n) = SumBefore(plan_stages, s)

\* Three stages, the first an initial wait, the others with targets.
C2_Witness ==
    /\ b_pc = "built"
    /\ Len(plan_stages) = 3
    /\ plan_stages[1].DurationInMinutes > 0 /\ plan_stages[1].Targets = <<>>
    /\ plan_stages[2].Targets # <<>> /\ plan_stages[3].Targets # <<>>

C4_LastStageDurationPositive ==
    (script = "update" /\ pc = "update_contact") =>
        /\ plan_stages # <<>>
        /\ plan_stages[Len(plan_stages)].DurationInMinutes >= 1

\* update_contact is being called with a plan of two stages, the first of
\* which engages a channel at minute 0.
C4_Witness ==
    /\ script = "update" /\ pc = "update_contact"
    /\ retry.status = "calling"
    /\ Len(plan_stages) = 2
    /\ plan_stages[1].Targets # <<>>

\* Some alias or response plan of the work list failed.
ItemFailed ==
    \/ script = "update" /\ ~success
    \/ script = "delete" /\ \E a \in DOMAIN contacts_processed : ~contacts_processed[a]

\* C5: in both scripts, when the process has ended and at least one alias or
\* response plan failed, the exit status is 1 (the exit status is 0 only if
\* every item succeeded).
C5_ExitStatusReportsFailure ==
    (pc = "done" /\ ItemFailed) => exit_status = 1

WorkList ==
    IF script = "update"
    THEN [n \in DOMAIN CONTACTS_DEFINITION |-> CONTACTS_DEFINITION[n].alias]
         \o [n \in DOMAIN RESPONSE_PLANS_TO_UPDATE |->
                RESPONSE_PLANS_TO_UPDATE[n].plan_name]
    ELSE CONTACTS_TO_DELETE

FailedAliases ==
    IF script = "update"
    THEN {a \in DefinedAliases : a \notin DOMAIN contact_arns}
    ELSE {a \in DOMAIN contacts_processed : ~contacts_processed[a]}

\* C6: in both scripts, when the run has printed its summary, every item of
\* the work list was attempted exactly once in list order, whatever failed
\* before it; and when the processing of an alias failed, the overall result
\* is failure and the summary lists the alias as failed.
C6_PartialFailureReported ==
    (pc = "done" /\ summary.printed) =>
        /\ attempted = WorkList
        /\ FailedAliases # {} =>
              /\ ~main_returned
              /\ FailedAliases \subseteq Range(summary.failed)

C8_DryRunIssuesNoMutatingCall ==
    CONFIG.dry_run => api_calls = {}

\* A dry run of the deletion script that went through three aliases, one of
\* them with channels and response plans to detach, and printed its summary.
C8_Witness ==
    /\ CONFIG.dry_run /\ script = "delete" /\ pc = "done"
    /\ summary.printed
    /\ Len(summary.processed) = 3
    /\ CONFIG.remove_from_response_plans
    /\ remote_contacts["a"].channels # <<>>

(***************************************************************************)
(* Properties of channel creation and of the plan of a contact (Spec).     *)
(***************************************************************************)
ChannelType == Details.channels[k]["type"]

RemoteArnsOfType(alias, channel_type) ==
    {remote_contacts[alias].channels[n].arn :
        n \in {m \in DOMAIN remote_contacts[alias].channels :
                  remote_contacts[alias].channels[m]["type"] = channel_type}}

PlanTargetIds == UNION {TargetIds(plan_stages[n]) : n \in DOMAIN plan_stages}

C12_ChannelErrorFailsContact ==
    \A a \in DefinedAliases :
        <<"ERROR", "Error creating channel", a>> \in log =>
            /\ <<"ERROR", "Failed to process contact", a>> \in log
            /\ a \notin DOMAIN contact_arns
            /\ ~success
            /\ pc = "done" => ~main_returned
            /\ ~(pc = "update_contact" /\ Alias = a)
            /\ remote_contacts[a].plan = <<>>

\* The run ended after the second of two contacts failed on the creation of
\* a channel; the first contact was processed.
C12_Witness ==
    /\ script = "update" /\ pc = "done" /\ summary.printed
    /\ <<"ERROR", "Error creating channel", "b">> \in log
    /\ "a" \in DOMAIN contact_arns
    /\ remote_contacts["b"].exists

\* The delays configured for the channels of the contact whose type has a
\* channel reference.
DelaysWithReference ==
    {Get(Details.channels[n], "engagement_time_minutes", 0) :
        n \in {m \in DOMAIN Details.channels :
                  Details.channels[m]["type"] \in DOMAIN channel_arns_by_type}}

StagesWithTargets == {n \in DOMAIN plan_stages : plan_stages[n].Targets # <<>>}

\* C13: in a plan sent to update_contact the targets are the references
\* obtained and nothing else, and there is one stage with targets per delay
\* of a channel that has a reference (a channel without reference adds no
\* target and no stage; only a first stage may be without targets).  When no
\* channel of a contact obtained a reference, the warning is logged, no plan
\* update is sent, the contact has no plan, its reference is recorded by
\* main and no failure is logged for it.
C13_ChannelsWithoutReferenceDropped ==
    /\ (script = "update" /\ pc = "update_contact") =>
          /\ channel_arns_by_type # EmptyDict
          /\ PlanTargetIds \subseteq Range(channel_arns_by_type)
          /\ Cardinality(StagesWithTargets) = Cardinality(DelaysWithReference)
          /\ \A n \in DOMAIN plan_stages : n > 1 => n \in StagesWithTargets
          /\ <<"WARN", "No channels available", Alias>> \notin log
    /\ \A a \in DefinedAliases :
          <<"WARN", "No channels available", a>> \in log =>
              /\ a \in DOMAIN contact_arns
              /\ contact_arns[a] = ContactArn(a)
              /\ remote_contacts[a].exists
              /\ remote_contacts[a].plan = <<>>
              /\ <<"ERROR", "Failed to process contact", a>> \notin log
              /\ <<"WARN", "Could not update contact plan", a>> \notin log

\* The run ended; contact b got no channel reference and only the warning,
\* contact a got a reference for one of its two channels and a plan with
\* that one target.
C13_Witness ==
    /\ script = "update" /\ pc = "done" /\ summary.printed
    /\ <<"WARN", "No channels available", "b">> \in log
    /\ "b" \in DOMAIN contact_arns
    /\ Len(CONTACTS_DEFINITION[1].details.channels) = 2
    /\ Len(remote_contacts["a"].channels) = 1
    /\ Len(remote_contacts["a"].plan) = 1
    /\ Len(remote_contacts["a"].plan[1].Targets) = 1
    /\ success

UpdateScriptCalls ==
    {"create_contact", "create_contact_channel", "update_contact",
     "update_response_plan"}

\* C14: when update_contact has failed all its attempts for a contact, the
\* step that gives up logs the warning and nothing else, changes nothing in
\* the remote account, keeps the success flag and records the contact as
\* processed; the update script never issues a delete call; and afterwards
\* the contact and its channels still exist, without the plan, and no
\* failure is logged for the contact.
C14_NoRollback ==
    /\ [][(script = "update" /\ pc = "update_contact"
             /\ <<"WARN", "Could not update contact plan", Alias>> \in log') =>
          (/\ log' = Logged("WARN", "Could not update contact plan", Alias)
           /\ remote_contacts' = remote_contacts
           /\ remote_plans' = remote_plans
           /\ success' = success
           /\ Alias \in DOMAIN contact_arns'
           /\ contact_arns'[Alias] = ContactArn(Alias)
           /\ retry.attempt = RetryAttempts - 1)]_vars
    /\ [](script = "update" => api_calls \subseteq UpdateScriptCalls)
    /\ [](\A a \in DefinedAliases :
            <<"WARN", "Could not update contact plan", a>> \in log =>
                /\ a \in DOMAIN contact_arns
                /\ remote_contacts[a].exists
                /\ remote_contacts[a].channels # <<>>
                /\ remote_contacts[a].plan = <<>>
                /\ <<"ERROR", "Failed to process contact", a>> \notin log)

\* The run ended with success: contact a was created with two channels, its
\* plan update failed, and a was still attached to response plan p1.
C14_Witness ==
    /\ script = "update" /\ pc = "done" /\ summary.printed
    /\ <<"WARN", "Could not update contact plan", "a">> \in log
    /\ "create_contact" \in api_calls
    /\ Len(remote_contacts["a"].channels) = 2
    /\ remote_contacts["a"].plan = <<>>
    /\ remote_plans["p1"].engagements = <<ContactArn("a")>>
    /\ success /\ main_returned

(***************************************************************************)
(* Properties of the deletion script and of "not found" answers (Spec).    *)
(***************************************************************************)
NotFoundLine == <<"WARN", "Contact not found", DeleteAlias>>

\* C15: the step of delete_contact that finds the alias absent logs the
\* contact as not found and nothing else (no exception reaches main),
\* returns to main, which goes to the next alias, issues no remote update or
\* delete and leaves the remote account as it is; and an alias that does not
\* exist remotely, looked up by a call that does not fail, takes that step.
C15_DeleteOfAbsentAlias ==
    /\ [][(script = "delete" /\ pc = "delete_contact" /\ NotFoundLine \in log') =>
          (/\ log' = log \cup {NotFoundLine}
           /\ api_calls' = api_calls
           /\ remote_contacts' = remote_contacts
           /\ remote_plans' = remote_plans
           /\ DeleteAlias \in DOMAIN contacts_processed'
           /\ pc' \in {"delete_contact", "summary"}
           /\ attempted' = Append(attempted, DeleteAlias))]_vars
    /\ [][(script = "delete" /\ pc = "delete_contact" /\ ~faulted'
             /\ ~remote_contacts[DeleteAlias].exists) =>
          NotFoundLine \in log']_vars

\* A live run without failed calls deleted contact a and found alias b
\* absent; the remote delete calls were issued for a only.
C15_Witness ==
    /\ script = "delete" /\ pc = "done" /\ summary.printed /\ ~faulted
    /\ ~CONFIG.dry_run
    /\ CONTACTS_TO_DELETE = <<"a", "b">>
    /\ <<"WARN", "Contact not found", "b">> \in log
    /\ <<"WARN", "Contact not found", "a">> \notin log
    /\ "delete_contact" \in api_calls
    /\ contacts_processed["a"]

\* C16: a run in which no remote call failed, so that the only abnormal
\* outcomes are entities the remote does not have (an alias to delete, a
\* response plan to update), records no failed item and ends with success:
\* main returns True, and the deletion script lists no failed alias and
\* exits with status 0.
C16_NotFoundIsNotFailure ==
    (pc = "done" /\ summary.printed /\ ~faulted) =>
        /\ main_returned
        /\ summary.failed = <<>>
        /\ script = "delete" => exit_status = 0

(***************************************************************************)
(* Properties of validation and of the response plan updates (Spec).       *)
(***************************************************************************)
\* What the configuration tables must satisfy, stated on the tables.
ReferencedAliases ==
    UNION {Range(RESPONSE_PLANS_TO_UPDATE[n].contacts_to_engage) :
              n \in DOMAIN RESPONSE_PLANS_TO_UPDATE}

ConfiguredChannels ==
    UNION {Range(CONTACTS_DEFINITION[n].details.channels) :
              n \in DOMAIN CONTACTS_DEFINITION}

WellFormedConfiguration ==
    /\ ReferencedAliases \subseteq
           {CONTACTS_DEFINITION[n].alias : n \in DOMAIN CONTACTS_DEFINITION}
    /\ \A n \in DOMAIN RESPONSE_PLANS_TO_UPDATE :
           RESPONSE_PLANS_TO_UPDATE[n].contacts_to_engage # <<>>
    /\ \A n \in DOMAIN CONTACTS_DEFINITION :
           CONTACTS_DEFINITION[n].details.channels # <<>>
    /\ \A c \in ConfiguredChannels :
           /\ "type" \in DOMAIN c /\ c["type"] \in {"EMAIL", "SMS", "VOICE"}
           /\ "address" \in DOMAIN c /\ c["address"] # ""
           /\ "engagement_time_minutes" \in DOMAIN c => c["engagement_time_minutes"] >= 0

\* C17: in the update script a mutating remote call is issued only under a
\* well-formed configuration, and a response plan is updated only when all
\* the aliases it references are defined; under a configuration that is not
\* well formed the run goes from main straight to its end, where main has
\* logged the validation failure and returned False, and the remote account
\* is never changed.
C17_ValidationBeforeAnyCall ==
    /\ [](script = "update" =>
            /\ api_calls # {} => WellFormedConfiguration
            /\ pc = "update_response_plan" =>
                  Range(RESPONSE_PLANS_TO_UPDATE[i].contacts_to_engage)
                      \subseteq DefinedAliases
            /\ ~WellFormedConfiguration =>
                  /\ pc \in {"main", "done"}
                  /\ api_calls = {}
                  /\ pc = "done" =>
                        /\ ~main_returned
                        /\ ~summary.printed
                        /\ log \in {{<<"ERROR", "Configuration validation failed", "">>},
                                    {<<"ERROR", "Error initializing AWS clients", "">>}})
    /\ [][(script = "update" /\ ~WellFormedConfiguration) =>
             (remote_contacts' = remote_contacts /\ remote_plans' = remote_plans)]_vars

\* A run ended at the validation: its second response plan references alias
\* b, which the contact table does not define.
C17_Witness ==
    /\ script = "update" /\ pc = "done" /\ ~main_returned
    /\ log = {<<"ERROR", "Configuration validation failed", "">>}
    /\ Len(CONTACTS_DEFINITION) = 1
    /\ ValidContact(CONTACTS_DEFINITION[1])
    /\ Len(RESPONSE_PLANS_TO_UPDATE) = 2
    /\ "b" \in ReferencedAliases
    /\ ~CONFIG.dry_run
    /\ api_calls = {}

\* The aliases whose processing ended without the failure line of main.
SucceededAliases ==
    {a \in DefinedAliases :
        /\ a \in Range(attempted)
        /\ <<"ERROR", "Failed to process contact", a>> \notin log}

\* The references of the succeeded contacts of plan entry n, in configured order.
ExpectedEngagements(n) ==
    LET engaged == SelectSeq(RESPONSE_PLANS_TO_UPDATE[n].contacts_to_engage,
                             LAMBDA a : a \in SucceededAliases)
    IN  [m \in DOMAIN engaged |-> ContactArn(engaged[m])]

\* C18: when the update script is about to call update_response_plan, every
\* configured contact has been processed, and the engagement list is the
\* non-empty list of the references of the plan's configured contacts whose
\* processing succeeded, in configured order; a response plan changes in the
\* remote account only to that list.
C18_EngagementsAreSucceededContacts ==
    /\ [](script = "update" /\ pc \in {"response_plan", "update_response_plan"} =>
            DefinedAliases \subseteq Range(attempted))
    /\ [](script = "update" /\ pc = "update_response_plan" =>
            /\ engagements = ExpectedEngagements(i)
            /\ engagements # <<>>
            /\ \A a \in DefinedAliases :
                  <<"ERROR", "Failed to process contact", a>> \in log =>
                      ContactArn(a) \notin Range(engagements))
    /\ [][script = "update" =>
            \A p \in DOMAIN remote_plans :
                remote_plans'[p] # remote_plans[p] =>
                    /\ pc = "update_response_plan"
                    /\ p = RESPONSE_PLANS_TO_UPDATE[i].plan_name
                    /\ remote_plans'[p].engagements = ExpectedEngagements(i)]_vars

\* Plan p1 names a and b; the processing of a failed and that of b succeeded,
\* and p1 now engages b alone.
C18_Witness ==
    /\ script = "update" /\ pc = "done"
    /\ RESPONSE_PLANS_TO_UPDATE[1].contacts_to_engage = <<"a", "b">>
    /\ <<"ERROR", "Failed to process contact", "a">> \in log
    /\ "b" \in SucceededAliases
    /\ "update_response_plan" \in api_calls
    /\ remote_plans["p1"].engagements = <<ContactArn("b")>>

\* No configured contact of plan p1 succeeded, and the run ended without an
\* update_response_plan call.
C18_WitnessNoneSucceeded ==
    /\ script = "update" /\ pc = "done" /\ ~CONFIG.dry_run
    /\ Len(RESPONSE_PLANS_TO_UPDATE) = 1
    /\ SucceededAliases = {}
    /\ <<"WARN", "No valid contacts found for response plan", "p1">> \in log
    /\ "update_response_plan" \notin api_calls

\* The positions <<stage, target>> of plan_stages that name reference arn.
TargetPositions(arn) ==
    UNION {{<<n, m>> : m \in {x \in DOMAIN plan_stages[n].Targets :
                                 plan_stages[n].Targets[x].ContactChannelId = arn}} :
              n \in DOMAIN plan_stages}

DistinctChannelTypes ==
    \A m, n \in DOMAIN Details.channels :
        Details.channels[m]["type"] = Details.channels[n]["type"] => m = n

\* C19: in the plan the update script is about to send to update_contact,
\* every channel reference obtained for the contact is the target of exactly
\* one position of exactly one stage, whatever the valid configuration.
C19_EachReferenceInExactlyOneStage ==
    script = "update" /\ pc = "update_contact" =>
        \A t \in DOMAIN channel_arns_by_type :
            Cardinality(TargetPositions(channel_arns_by_type[t])) = 1

\* The same, for the contacts whose configured channels have distinct types.
C19_DistinctTypesReferenceInOneStage ==
    script = "update" /\ pc = "update_contact" /\ DistinctChannelTypes =>
        \A t \in DOMAIN channel_arns_by_type :
            Cardinality(TargetPositions(channel_arns_by_type[t])) = 1

\* A plan built for two configured channels of distinct types.
C19_WitnessDistinctTypes ==
    /\ script = "update" /\ pc = "update_contact" /\ DistinctChannelTypes
    /\ Cardinality(DOMAIN channel_arns_by_type) = 2

(***************************************************************************)
(* Properties of the delete script's detaching (Spec).                     *)
(***************************************************************************)
\* The existing response plans whose engagements name the contact of alias a.
PlansReferencing(a) ==
    {p \in DOMAIN remote_plans :
        remote_plans[p].exists /\ ContactArn(a) \in Range(remote_plans[p].engagements)}

\* delete_contact returns True for the alias in this step of a live run
\* with remove_from_response_plans enabled.
ReportsDeleted ==
    /\ script = "delete" /\ ~CONFIG.dry_run /\ CONFIG.remove_from_response_plans
    /\ pc = "delete_channel" /\ k > Len(channels)
    /\ DeleteAlias \in DOMAIN contacts_processed'
    /\ contacts_processed'[DeleteAlias]

\* No response plan references the contact of alias a and none of its
\* channels is left before the step, and no plan references it after it.
DetachedFirst(a) ==
    /\ PlansReferencing(a) = {}
    /\ remote_contacts[a].channels = <<>>
    /\ PlansReferencing(a)' = {}

\* C20: in a live delete run with remove_from_response_plans enabled, when
\* delete_contact reports success for an alias, then before the remote
\* delete_contact call no response plan referenced the contact and none of
\* its channels was left, and no response plan references it afterwards.
C20_SuccessMeansDetached ==
    [][\A a \in Aliases : (ReportsDeleted /\ a = DeleteAlias) => DetachedFirst(a)]_vars

\* The same for the runs in which no remote call has failed.
C20_SuccessMeansDetachedWithoutFailures ==
    [][\A a \in Aliases :
          (ReportsDeleted /\ ~faulted' /\ a = DeleteAlias) => DetachedFirst(a)]_vars

\* A contact with channels and referenced by a response plan was reported
\* deleted in a live run in which no call failed.
C20_Witness ==
    /\ script = "delete" /\ pc = "done" /\ ~CONFIG.dry_run
    /\ CONFIG.remove_from_response_plans /\ ~faulted
    /\ "a" \in DOMAIN contacts_processed /\ contacts_processed["a"]
    /\ "delete_contact_channel" \in api_calls
    /\ "update_response_plan" \in api_calls
    /\ ~remote_contacts["a"].exists
    /\ PlansReferencing("a") = {}

(***************************************************************************)
(* Properties of retry_operation (SpecRetry).                              *)
(***************************************************************************)
AllClientErrors(history) == \A n \in DOMAIN history : IsClientError(history[n])

\* C9: the wrapped call is invoked at most retry_attempts times and never
\* again after an attempt that succeeded, whose response is returned; the
\* wrapper has slept retry_delay once per failed attempt that was followed by
\* another attempt (none after the last); after retry_attempts failed
\* attempts the failure of the last attempt is raised.
C9_RetryOperation ==
    pc = "harness" /\ b_pc = "off" =>
        LET n == Len(r_history)
        IN  /\ retry.calls = n /\ n <= RetryAttempts
            /\ \A m \in 1..(n - 1) : IsFailure(r_history[m])
            /\ retry.status = "returned" <=> (n > 0 /\ ~IsFailure(r_history[n]))
            /\ retry.status = "returned" =>
                  /\ retry.result = r_history[n]
                  /\ retry.slept = RetryDelay * (n - 1)
            /\ retry.status = "calling" =>
                  /\ n < RetryAttempts
                  /\ retry.slept = RetryDelay * n
            /\ retry.status = "raised" =>
                  /\ retry.result = r_history[n]
                  /\ retry.slept = RetryDelay * (n - 1)
            /\ (n = RetryAttempts /\ IsFailure(r_history[n])) =>
                  retry.status = "raised"

\* The failure of the third attempt raised after two sleeps.
C9_Witness ==
    /\ pc = "harness" /\ b_pc = "off"
    /\ retry.status = "raised"
    /\ Len(r_history) = RetryAttempts
    /\ retry.slept = RetryDelay * (RetryAttempts - 1)

\* C10 as stated: whatever failure an attempt raises, it is retried until
\* the attempts are exhausted: nothing is raised before the last attempt.
C10_EveryFailureRetried ==
    (pc = "harness" /\ b_pc = "off" /\ retry.status = "raised") =>
        retry.calls = RetryAttempts

\* C10 amended: whatever the error code of the ClientError an attempt raises,
\* the attempt is retried in the same way: after n ClientErrors the wrapper
\* is at the same point for every choice of the codes, and raises only after
\* retry_attempts of them; an exception that is not a ClientError is raised
\* at once.
C10_EveryClientErrorRetried ==
    pc = "harness" /\ b_pc = "off" =>
        LET n == Len(r_history)
        IN  /\ AllClientErrors(r_history) =>
                  /\ retry.calls = n
                  /\ retry.slept = RetryDelay * (IF n < RetryAttempts THEN n ELSE n - 1)
                  /\ retry.status = IF n < RetryAttempts THEN "calling" ELSE "raised"
            /\ (n > 0 /\ r_history[n] = NonClientError) =>
                  retry.status = "raised"

\* A not-found, a conflict and a throttling error, each retried.
C10_Witness ==
    /\ pc = "harness" /\ b_pc = "off"
    /\ r_history = <<"ResourceNotFoundException", "ConflictException",
                     "ThrottlingException">>
    /\ retry.status = "raised"

====
